---- MODULE Spec2Model ----
(***************************************************************************)
(* Model of the sophrosyne policy evaluation engine:                       *)
(*   core/safety.py   Safety.predict and _all                              *)
(*   core/checks.py   Check.handle_dummy, Check.type_is_supported,         *)
(*                    Check.run                                            *)
(*   core/models.py   Check / Profile rows, payloads, Verdict              *)
(*                                                                         *)
(* Strings that the code inspects (check names) are sequences of tokens,   *)
(* so that str.startswith is a prefix test on the sequence.  A Python dict *)
(* is a sequence of <<key, value>> pairs in insertion order.               *)
(***************************************************************************)
EXTENDS Integers, Sequences, FiniteSets, TLC

VARIABLES
    profiles,       \* Profile table: sequence of rows [id, name, check_ids]
    checks,         \* Check table: check id -> row
    pc,             \* per call: "idle", "loop", "rpc", "done"
    profile,        \* per call: the profile argument of predict
    data,           \* per call: the data argument of predict
    db_profile,     \* per call: the row loaded by predict (with its checks)
    idx,            \* per call: position of the for loop in db_profile.checks
    check_results,  \* per call: the check_results dict
    rpc,            \* per call: the pending stub.Check call
    outcome,        \* per call: what predict returned or raised
    run_log,        \* per call: every Check.run call and how it ended
    contacted,      \* every channel opened to an upstream address
    replies,        \* every response that a backend gave
    u_check,        \* a Check object on which run is called directly
    u_data,         \* the two payloads it is run on
    u_out,          \* what the two runs gave
    users,          \* User table: sequence of rows
    next_id,        \* the next primary keys of the Profile and Check tables
    creds,          \* per call: the credentials of the scan request
    current_user,   \* per call: the user that the dependencies resolved
    admin_req,      \* the last request to the profiles or checks router
    o_checks,       \* two orders of the same bound checks (their names)
    o_results,      \* check name -> the result of its run
    o_out           \* the Verdict of the loop of predict for each order

orderVars == <<o_checks, o_results, o_out>>

unitVars == <<u_check, u_data, u_out, orderVars>>

apiVars == <<users, next_id, creds, current_user, admin_req>>

vars == <<profiles, checks, pc, profile, data, db_profile, idx,
          check_results, rpc, outcome, run_log, contacted, replies,
          unitVars, apiVars>>

----------------------------------------------------------------------------
(* Bounds *)

\* largest number of checks bound to the profile under evaluation
MaxChecks == 4

\* largest number of requests to the profiles and checks routers
MaxOps == 2

\* largest number of bound checks whose orders are compared
MaxPerm == 3

\* largest number of requests to the profiles and checks routers while two
\* scan requests are followed
MaxChanges == 1

\* config numbers range over -MaxNum..MaxNum
MaxNum == 2

\* the calls of predict that are modelled
Calls == {1}

----------------------------------------------------------------------------
(* Payloads (core/models.py) *)

TEXT == "text"

IMAGE == "image"

Contents == {"c1", "c2"}

SafetyServicePayloadText == [kind : {TEXT}, content : Contents]

SafetyServicePayloadImage == [kind : {IMAGE}, content : Contents]

SafetyServicePayload == SafetyServicePayloadText \cup SafetyServicePayloadImage

----------------------------------------------------------------------------
(* Config values: Union[str, int, float, bool], tagged by their Python type *)

BoolVal(b) == [type |-> "bool", b |-> b, s |-> "", n |-> 0]

StrVal(s) == [type |-> "str", b |-> FALSE, s |-> s, n |-> 0]

IntVal(n) == [type |-> "int", b |-> FALSE, s |-> "", n |-> n]

\* a float is held as its number of tenths
FloatVal(n) == [type |-> "float", b |-> FALSE, s |-> "", n |-> n]

NoConfig == [none |-> TRUE, kv |-> <<>>]

EmptyConfig == [none |-> FALSE, kv |-> <<>>]

ResultConfig(v) == [none |-> FALSE, kv |-> [k \in {"result"} |-> v]]

\* str.lower on the strings that occur in configs
Lower(s) ==
    CASE s \in {"TRUE", "True", "true", "tRuE"} -> "true"
      [] s \in {"FALSE", "False", "false"} -> "false"
      [] s = "YES" -> "yes"
      [] OTHER -> s

----------------------------------------------------------------------------
(* Sequences and dicts *)

In(x, seq) == \E k \in 1..Len(seq) : seq[k] = x

\* str.startswith on token sequences
StartsWith(s, prefix) ==
    /\ Len(s) >= Len(prefix)
    /\ SubSeq(s, 1, Len(prefix)) = prefix

DictKeys(d) == {d[k][1] : k \in 1..Len(d)}

DictHas(d, key) == key \in DictKeys(d)

DictGet(d, key) == d[CHOOSE k \in 1..Len(d) : d[k][1] = key][2]

\* d[key] = value
DictSet(d, key, value) ==
    IF DictHas(d, key)
    THEN [k \in 1..Len(d) |-> IF d[k][1] = key THEN <<key, value>> ELSE d[k]]
    ELSE Append(d, <<key, value>>)

\* d.values()
DictValues(d) == [k \in 1..Len(d) |-> d[k][2]]

----------------------------------------------------------------------------
(* The rows of the Check table (core/models.py, CheckBase and Check) *)

LocalDummyPrefix == <<"local", ":", "dummy", ":">>

CheckRow(id, name, upstream_services, supported_types, config) ==
    [id |-> id, name |-> name, upstream_services |-> upstream_services,
     supported_types |-> supported_types, config |-> config]

\* The checks that exist in the store.  1 and 3 are local stubs that give
\* True, 2 and 4 local stubs that give False, 2 has an upstream address all
\* the same, 3 supports text only, 5 is a
\* remote check with two addresses, and 6 is a remote check (its name lacks
\* the last separator of the prefix) with no address that supports images
\* only.
CheckTable ==
    <<CheckRow(1, LocalDummyPrefix \o <<"a">>, <<>>, <<TEXT, IMAGE>>,
               ResultConfig(BoolVal(TRUE))),
      CheckRow(2, LocalDummyPrefix \o <<"b">>, <<"addr1">>, <<TEXT, IMAGE>>,
               ResultConfig(StrVal("False"))),
      CheckRow(3, LocalDummyPrefix \o <<"c">>, <<>>, <<TEXT>>,
               ResultConfig(StrVal("TRUE"))),
      CheckRow(4, LocalDummyPrefix \o <<"d">>, <<>>, <<IMAGE, TEXT>>,
               EmptyConfig),
      CheckRow(5, <<"remote", ":", "x">>, <<"addr1", "addr2">>,
               <<TEXT, IMAGE>>, EmptyConfig),
      CheckRow(6, <<"local", ":", "dummy">>, <<>>, <<IMAGE>>,
               ResultConfig(BoolVal(TRUE)))>>

CheckIds == 1..Len(CheckTable)

\* lists of distinct check ids: the (profile_id, check_id) primary key of
\* ProfileCheckAssociation forbids binding a check twice
Bindings ==
    {b \in UNION {[1..n -> CheckIds] : n \in 0..MaxChecks} :
        \A j, k \in 1..Len(b) : j # k => b[j] # b[k]}

DefaultProfile == "default"

ProfileNames == {DefaultProfile, "other", "missing"}

----------------------------------------------------------------------------
(* core/checks.py *)

\* Check.model_validate(check.model_dump()): the CheckBase fields of the row
ModelValidate(row) ==
    [name |-> row.name, upstream_services |-> row.upstream_services,
     supported_types |-> row.supported_types, config |-> row.config]

\* the string is compared without lower()
handle_dummy_case_sensitive(self) ==
    IF self.config.none THEN FALSE
    ELSE IF "result" \notin DOMAIN self.config.kv THEN FALSE
    ELSE LET result == self.config.kv["result"] IN
         IF result.type = "bool" THEN result.b
         ELSE IF result.type = "str" THEN result.s = "true"
         ELSE result.n # 0

\* a number counts as true only when it is positive
handle_dummy_positive(self) ==
    IF self.config.none THEN FALSE
    ELSE IF "result" \notin DOMAIN self.config.kv THEN FALSE
    ELSE LET result == self.config.kv["result"] IN
         IF result.type = "bool" THEN result.b
         ELSE IF result.type = "str" THEN Lower(result.s) = "true"
         ELSE result.n > 0

\* a check without a configured result passes
handle_dummy_default_true(self) ==
    IF self.config.none THEN TRUE
    ELSE IF "result" \notin DOMAIN self.config.kv THEN TRUE
    ELSE LET result == self.config.kv["result"] IN
         IF result.type = "bool" THEN result.b
         ELSE IF result.type = "str" THEN Lower(result.s) = "true"
         ELSE result.n # 0

handle_dummy(self) ==
    IF self.config.none THEN FALSE
    ELSE IF "result" \notin DOMAIN self.config.kv THEN FALSE
    ELSE LET result == self.config.kv["result"] IN
         IF result.type = "bool" THEN result.b
         ELSE IF result.type = "str" /\ Lower(result.s) = "true" THEN TRUE
         ELSE IF result.type = "str" /\ Lower(result.s) = "false" THEN FALSE
         ELSE IF result.type = "int" THEN result.n # 0
         ELSE IF result.type = "float" THEN result.n # 0
         ELSE FALSE

\* both branches test for TEXT
type_is_supported_text_only(self, d) ==
    IF d.kind = TEXT THEN In(TEXT, self.supported_types)
    ELSE IF d.kind = IMAGE THEN In(TEXT, self.supported_types)
    ELSE FALSE

\* an empty supported_types stands for every type
type_is_supported_empty_all(self, d) ==
    IF Len(self.supported_types) = 0 THEN TRUE
    ELSE IF d.kind = TEXT THEN In(TEXT, self.supported_types)
    ELSE IF d.kind = IMAGE THEN In(IMAGE, self.supported_types)
    ELSE FALSE

type_is_supported(self, d) ==
    IF d.kind = TEXT THEN In(TEXT, self.supported_types)
    ELSE IF d.kind = IMAGE THEN In(IMAGE, self.supported_types)
    ELSE FALSE

Unset == "<unset>"

\* checks_pb2.CheckRequest(text=...) or CheckRequest(image=...)
CheckRequest(d) ==
    IF d.kind = TEXT THEN [text |-> d.content, image |-> Unset]
    ELSE [text |-> Unset, image |-> d.content]

Raises(error) ==
    [kind |-> "raise", error |-> error, value |-> FALSE,
     request |-> CheckRequest([kind |-> TEXT, content |-> Unset])]

Returns(value) ==
    [kind |-> "return", error |-> "", value |-> value,
     request |-> CheckRequest([kind |-> TEXT, content |-> Unset])]

Calls_rpc(request) ==
    [kind |-> "rpc", error |-> "", value |-> FALSE, request |-> request]

\* the strategy is chosen by the presence of upstream addresses
run_upstream_first(self, d) ==
    IF ~In(d.kind, self.supported_types) THEN Raises("NotImplementedError")
    ELSE IF Len(self.upstream_services) = 0 THEN Returns(handle_dummy(self))
    ELSE Calls_rpc(CheckRequest(d))

\* the local stub passes text only
run_dummy_text_only(self, d) ==
    IF ~In(d.kind, self.supported_types) THEN Raises("NotImplementedError")
    ELSE IF StartsWith(self.name, LocalDummyPrefix)
         THEN Returns(d.kind = TEXT /\ handle_dummy(self))
    ELSE Calls_rpc(CheckRequest(d))

\* the name prefix is tested before the payload kind
run_prefix_first(self, d) ==
    IF StartsWith(self.name, LocalDummyPrefix) THEN Returns(handle_dummy(self))
    ELSE IF ~In(d.kind, self.supported_types) THEN Raises("NotImplementedError")
    ELSE Calls_rpc(CheckRequest(d))

\* Check.run up to the point where it opens a channel
run(self, d) ==
    IF ~type_is_supported(self, d) THEN Raises("NotImplementedError")
    ELSE IF d.kind \notin {TEXT, IMAGE} THEN Raises("NotImplementedError")
    ELSE IF StartsWith(self.name, LocalDummyPrefix)
         THEN Returns(handle_dummy(self))
    ELSE Calls_rpc(CheckRequest(d))

----------------------------------------------------------------------------
(* core/safety.py *)

RECURSIVE CountLoop(_, _, _, _)
CountLoop(iterable, k, count_t, count_f) ==
    IF k > Len(iterable) THEN count_t > count_f
    ELSE IF iterable[k] THEN CountLoop(iterable, k + 1, count_t + 1, count_f)
    ELSE CountLoop(iterable, k + 1, count_t, count_f + 1)

CountOf(iterable, b) == Cardinality({k \in 1..Len(iterable) : iterable[k] = b})

\* logical AND over a non-empty iterable
_all_and(iterable) == Len(iterable) > 0 /\ CountOf(iterable, FALSE) = 0

\* the built-in all
_all_builtin(iterable) == CountOf(iterable, FALSE) = 0

\* count_t >= count_f
_all_ge(iterable) == CountOf(iterable, TRUE) >= CountOf(iterable, FALSE)

\* count_t < count_f
_all_lt(iterable) == CountOf(iterable, TRUE) < CountOf(iterable, FALSE)

\* the return sits inside the loop body of a flag: the last item decides
_all_last(iterable) == Len(iterable) > 0 /\ iterable[Len(iterable)]

\* count_t > 0
_all_any(iterable) == CountOf(iterable, TRUE) > 0

_all(iterable) == CountLoop(iterable, 1, 0, 0)

\* the verdict of the comment above the return: True when no check ran
VerdictTrueWhenEmpty(results) ==
    [verdict |-> Len(results) = 0 \/ CountLoop(DictValues(results), 1, 0, 0),
     checks |-> results]

\* Verdict(verdict=_all(check_results.values()), checks=check_results)
Verdict(results) ==
    [verdict |-> _all(DictValues(results)), checks |-> results]

NoOutcome ==
    [returned |-> FALSE, verdict |-> FALSE, checks |-> <<>>,
     raised |-> FALSE, error |-> ""]

Returned(v) ==
    [returned |-> TRUE, verdict |-> v.verdict, checks |-> v.checks,
     raised |-> FALSE, error |-> ""]

Raised(error) ==
    [returned |-> FALSE, verdict |-> FALSE, checks |-> <<>>,
     raised |-> TRUE, error |-> error]

NoRpc == [name |-> <<>>, address |-> "", request |-> CheckRequest([kind |-> TEXT, content |-> Unset])]

NoProfile == [id |-> 0, name |-> "", checks |-> <<>>]

LoadRow(row) ==
    [id |-> row.id, name |-> row.name,
     checks |-> [k \in 1..Len(row.check_ids) |-> checks[row.check_ids[k]]]]

\* the where clause is missing: the first row of the table
SelectProfileFirstRow(name) ==
    IF Len(profiles) = 0 THEN NoProfile ELSE LoadRow(profiles[1])

\* an unknown name falls back to the default profile
SelectProfileOrDefault(name) ==
    LET rows == SelectSeq(profiles, LAMBDA r : r.name = name)
        dflt == SelectSeq(profiles, LAMBDA r : r.name = DefaultProfile)
    IN  IF Len(rows) > 0 THEN LoadRow(rows[1])
        ELSE IF Len(dflt) > 0 THEN LoadRow(dflt[1])
        ELSE NoProfile

\* a profile that a call has loaded is kept and handed to later calls
SelectProfileCached(name) ==
    LET rows == SelectSeq(profiles, LAMBDA r : r.name = name)
        hits == {c \in DOMAIN db_profile : db_profile[c].name = name}
    IN  IF hits # {} THEN db_profile[CHOOSE c \in hits : TRUE]
        ELSE IF Len(rows) = 0 THEN NoProfile
        ELSE LoadRow(rows[1])

\* select(Profile).where(Profile.name == profile), result.first(); the
\* checks relationship is loaded with the row
SelectProfile(name) ==
    LET rows == SelectSeq(profiles, LAMBDA r : r.name = name) IN
    IF Len(rows) = 0 THEN NoProfile
    ELSE LoadRow(rows[1])

\* what run_log keeps of one call of Check.run
RanEntry(self, d, result, error) ==
    <<[name |-> self.name, supported_types |-> self.supported_types,
       data |-> d, raised |-> error # "", error |-> error, result |-> result]>>

\* check_results is one dict that all calls write to
RecordShared(c, name, value, ran) ==
    LET results == DictSet(check_results[c], name, value) IN
    /\ check_results' = [k \in DOMAIN check_results |->
                            DictSet(check_results[k], name, value)]
    /\ run_log' = [run_log EXCEPT ![c] = @ \o ran]
    /\ rpc' = [rpc EXCEPT ![c] = NoRpc]
    /\ IF idx[c] >= Len(db_profile[c].checks)
       THEN /\ outcome' = [outcome EXCEPT ![c] = Returned(Verdict(results))]
            /\ pc' = [pc EXCEPT ![c] = "done"]
            /\ idx' = [idx EXCEPT ![c] = @ + 1]
       ELSE /\ pc' = [pc EXCEPT ![c] = "loop"]
            /\ idx' = [idx EXCEPT ![c] = @ + 1]
            /\ UNCHANGED outcome

\* the end of one iteration of the for loop: check_results[check.name] is
\* set, and after the last check the Verdict is returned
Record(c, name, value, ran) ==
    LET results == DictSet(check_results[c], name, value) IN
    /\ check_results' = [check_results EXCEPT ![c] = results]
    /\ run_log' = [run_log EXCEPT ![c] = @ \o ran]
    /\ rpc' = [rpc EXCEPT ![c] = NoRpc]
    /\ IF idx[c] >= Len(db_profile[c].checks)
       THEN /\ outcome' = [outcome EXCEPT ![c] = Returned(Verdict(results))]
            /\ pc' = [pc EXCEPT ![c] = "done"]
            /\ idx' = [idx EXCEPT ![c] = @ + 1]
       ELSE /\ pc' = [pc EXCEPT ![c] = "loop"]
            /\ idx' = [idx EXCEPT ![c] = @ + 1]
            /\ UNCHANGED outcome

\* the failing check is skipped and the loop goes on
RaiseSkip(c, error, ran) ==
    /\ run_log' = [run_log EXCEPT ![c] = @ \o ran]
    /\ rpc' = [rpc EXCEPT ![c] = NoRpc]
    /\ idx' = [idx EXCEPT ![c] = @ + 1]
    /\ UNCHANGED check_results
    /\ IF idx[c] >= Len(db_profile[c].checks)
       THEN /\ outcome' = [outcome EXCEPT ![c] = Returned(Verdict(check_results[c]))]
            /\ pc' = [pc EXCEPT ![c] = "done"]
       ELSE /\ pc' = [pc EXCEPT ![c] = "loop"]
            /\ UNCHANGED outcome

\* the evaluation starts over after a failure
RaiseRestart(c, error, ran) ==
    /\ pc' = [pc EXCEPT ![c] = "idle"]
    /\ run_log' = [run_log EXCEPT ![c] = @ \o ran]
    /\ UNCHANGED <<idx, check_results, rpc, outcome>>

\* the exception is caught and the same run is tried again
RaiseRetry(c, error, ran) ==
    UNCHANGED <<outcome, pc, run_log, idx, check_results, rpc>>

\* an exception leaves predict: nothing catches it
Raise(c, error, ran) ==
    /\ outcome' = [outcome EXCEPT ![c] = Raised(error)]
    /\ pc' = [pc EXCEPT ![c] = "done"]
    /\ run_log' = [run_log EXCEPT ![c] = @ \o ran]
    /\ UNCHANGED <<idx, check_results, rpc>>

\* a profile that is not found is created, without checks
PredictGetOrCreate(c, p, d) ==
    LET row == SelectProfile(p) IN
    /\ profile' = [profile EXCEPT ![c] = p]
    /\ data' = [data EXCEPT ![c] = d]
    /\ check_results' = [check_results EXCEPT ![c] = <<>>]
    /\ idx' = [idx EXCEPT ![c] = 1]
    /\ IF row = NoProfile
       THEN /\ profiles' = Append(profiles, [id |-> next_id.profile, name |-> p,
                                             check_ids |-> <<>>])
            /\ db_profile' = [db_profile EXCEPT ![c] =
                                 [id |-> next_id.profile, name |-> p, checks |-> <<>>]]
            /\ outcome' = [outcome EXCEPT ![c] = Returned(Verdict(<<>>))]
            /\ pc' = [pc EXCEPT ![c] = "done"]
       ELSE /\ db_profile' = [db_profile EXCEPT ![c] = row]
            /\ UNCHANGED profiles
            /\ IF Len(row.checks) = 0
               THEN /\ outcome' = [outcome EXCEPT ![c] = Returned(Verdict(<<>>))]
                    /\ pc' = [pc EXCEPT ![c] = "done"]
               ELSE /\ pc' = [pc EXCEPT ![c] = "loop"]
                    /\ UNCHANGED outcome
    /\ UNCHANGED <<checks, rpc, run_log, contacted, replies>>

\* predict(profile=p, data=d): lines 42-48, and line 60 when no check is
\* bound
Predict(c, p, d) ==
    LET row == SelectProfile(p) IN
    /\ profile' = [profile EXCEPT ![c] = p]
    /\ data' = [data EXCEPT ![c] = d]
    /\ IF row = NoProfile
       THEN /\ outcome' = [outcome EXCEPT ![c] = Raised("404 Profile not found")]
            /\ pc' = [pc EXCEPT ![c] = "done"]
            /\ UNCHANGED <<db_profile, idx, check_results>>
       ELSE /\ db_profile' = [db_profile EXCEPT ![c] = row]
            /\ check_results' = [check_results EXCEPT ![c] = <<>>]
            /\ idx' = [idx EXCEPT ![c] = 1]
            /\ IF Len(row.checks) = 0
               THEN /\ outcome' = [outcome EXCEPT ![c] = Returned(Verdict(<<>>))]
                    /\ pc' = [pc EXCEPT ![c] = "done"]
               ELSE /\ pc' = [pc EXCEPT ![c] = "loop"]
                    /\ UNCHANGED outcome
    /\ UNCHANGED <<profiles, checks, rpc, run_log, contacted, replies>>

\* predict is called on some profile name and some payload
Resolve(c) ==
    /\ pc[c] = "idle"
    /\ \E p \in ProfileNames, d \in SafetyServicePayload : Predict(c, p, d)
    /\ UNCHANGED <<unitVars, apiVars>>

\* a remote check without an address is skipped as failed
DispatchNoAddressIsFalse(c) ==
    /\ pc[c] = "loop"
    /\ LET self == ModelValidate(db_profile[c].checks[idx[c]])
           r == run(self, data[c])
       IN
       CASE r.kind = "raise" ->
              /\ Raise(c, r.error, RanEntry(self, data[c], FALSE, r.error))
              /\ UNCHANGED contacted
         [] r.kind = "return" ->
              /\ Record(c, self.name, r.value, RanEntry(self, data[c], r.value, ""))
              /\ UNCHANGED contacted
         [] r.kind = "rpc" ->
              IF Len(self.upstream_services) = 0
              THEN /\ Record(c, self.name, FALSE, RanEntry(self, data[c], FALSE, ""))
                   /\ UNCHANGED contacted
              ELSE \E k \in 1..Len(self.upstream_services) :
                   LET call == [name |-> self.name,
                                address |-> self.upstream_services[k],
                                request |-> r.request] IN
                   /\ rpc' = [rpc EXCEPT ![c] = call]
                   /\ contacted' = Append(contacted, [call |-> c, name |-> self.name,
                                     address |-> call.address, request |-> call.request])
                   /\ pc' = [pc EXCEPT ![c] = "rpc"]
                   /\ UNCHANGED <<idx, check_results, outcome, run_log>>
    /\ UNCHANGED <<profiles, checks, profile, data, db_profile, replies,
                   unitVars, apiVars>>

\* one iteration of the for loop, up to the return of a local check, an
\* exception, or the opening of the channel of a remote check
Dispatch(c) ==
    /\ pc[c] = "loop"
    /\ LET self == ModelValidate(db_profile[c].checks[idx[c]])
           r == run(self, data[c])
       IN
       CASE r.kind = "raise" ->
              /\ Raise(c, r.error, RanEntry(self, data[c], FALSE, r.error))
              /\ UNCHANGED contacted
         [] r.kind = "return" ->
              /\ Record(c, self.name, r.value, RanEntry(self, data[c], r.value, ""))
              /\ UNCHANGED contacted
         [] r.kind = "rpc" ->
              IF Len(self.upstream_services) = 0
              THEN \* choice([]) raises IndexError
                   /\ Raise(c, "IndexError", RanEntry(self, data[c], FALSE, "IndexError"))
                   /\ UNCHANGED contacted
              ELSE \E k \in 1..Len(self.upstream_services) :
                   LET call == [name |-> self.name,
                                address |-> self.upstream_services[k],
                                request |-> r.request] IN
                   /\ rpc' = [rpc EXCEPT ![c] = call]
                   /\ contacted' = Append(contacted, [call |-> c, name |-> self.name,
                                     address |-> call.address, request |-> call.request])
                   /\ pc' = [pc EXCEPT ![c] = "rpc"]
                   /\ UNCHANGED <<idx, check_results, outcome, run_log>>
    /\ UNCHANGED <<profiles, checks, profile, data, db_profile, replies,
                   unitVars, apiVars>>

\* the response message of the backend
CheckResponse == [result : BOOLEAN]

\* the message itself is taken for the result: any message is truthy
CallResultTruthy(call) == TRUE

\* call.result
CallResult(call) == call.result

\* stub.Check returns: call.result is the result of Check.run
RpcReturn(c) ==
    /\ pc[c] = "rpc"
    /\ \E call \in CheckResponse :
        LET self == ModelValidate(db_profile[c].checks[idx[c]])
            result == CallResult(call)
        IN
        /\ Record(c, self.name, result, RanEntry(self, data[c], result, ""))
        /\ replies' = Append(replies, [call |-> c, name |-> self.name,
                                       address |-> rpc[c].address,
                                       response |-> call])
    /\ UNCHANGED <<profiles, checks, profile, data, db_profile, contacted,
                   unitVars, apiVars>>

\* the failed call is made again
RpcFailRetry(c) ==
    /\ pc[c] = "rpc"
    /\ pc' = [pc EXCEPT ![c] = "loop"]
    /\ UNCHANGED <<profiles, checks, profile, data, db_profile, idx,
                   check_results, rpc, outcome, run_log, contacted, replies,
                   unitVars, apiVars>>

\* the error of the backend is caught and the check counts as failed
RpcFailAsFalse(c) ==
    /\ pc[c] = "rpc"
    /\ LET self == ModelValidate(db_profile[c].checks[idx[c]]) IN
       Record(c, self.name, FALSE, RanEntry(self, data[c], FALSE, "RpcError"))
    /\ UNCHANGED <<profiles, checks, profile, data, db_profile, contacted,
                   replies, unitVars, apiVars>>

\* stub.Check raises grpc.RpcError: unreachable backend or protocol error
RpcFail(c) ==
    /\ pc[c] = "rpc"
    /\ LET self == ModelValidate(db_profile[c].checks[idx[c]]) IN
       Raise(c, "RpcError", RanEntry(self, data[c], FALSE, "RpcError"))
    /\ UNCHANGED <<profiles, checks, profile, data, db_profile, contacted,
                   replies, unitVars, apiVars>>

----------------------------------------------------------------------------
(* The loop and the return of predict as a function of the bound checks  *)
(* and of what their runs return (core/safety.py, lines 48-60)           *)

\* check_results after the checks from position k on have run, and the
\* Verdict that is returned then
RECURSIVE ForLoop(_, _, _, _)
ForLoop(bound, result_of, k, results) ==
    IF k > Len(bound) THEN Verdict(results)
    ELSE ForLoop(bound, result_of, k + 1,
                 DictSet(results, bound[k], result_of[bound[k]]))

\* no loop is evaluated on its own
NoOrder ==
    /\ o_checks = <<>>
    /\ o_results = <<>>
    /\ o_out = <<>>

----------------------------------------------------------------------------
(* Users and the dependencies of the routes (api/dependencies.py) *)

\* None, for a str | None field
None == "<None>"

\* sophrosyne.core.security.sign: the stored form of a token
sign(token) == <<"signed", token>>

NoCredentials == "<no credentials>"

Credentials == {NoCredentials, "t-root", "t-alice", "t-bob", "t-dave", "t-bad"}

UserRow(id, name, token, is_active, is_admin, default_profile) ==
    [id |-> id, name |-> name, signed_token |-> sign(token),
     is_active |-> is_active, is_admin |-> is_admin,
     default_profile |-> default_profile]

NoUser == UserRow(0, "", "", FALSE, FALSE, None)

\* root as create_root_user makes it, and three users that root created:
\* alice is active, bob is inactive, dave is an inactive admin
StoredUsers ==
    <<UserRow(1, "root", "t-root", TRUE, TRUE, DefaultProfile),
      UserRow(2, "alice", "t-alice", TRUE, FALSE, None),
      UserRow(3, "bob", "t-bob", FALSE, FALSE, DefaultProfile),
      UserRow(4, "dave", "t-dave", FALSE, TRUE, DefaultProfile)>>

Ok == [status |-> 200, error |-> ""]

Forbidden(detail) == [status |-> 403, error |-> detail]

_authenticate(credentials) ==
    IF credentials = NoCredentials THEN NoUser
    ELSE LET rows == SelectSeq(users, LAMBDA u : u.signed_token = sign(credentials))
         IN IF Len(rows) = 0 THEN NoUser ELSE rows[1]

auth_and_return_user(user) ==
    IF user = NoUser THEN Forbidden("403 Not authenticated") ELSE Ok

\* every user counts as active
require_active_user_off(user) == Ok

require_active_user(user) ==
    IF ~user.is_active THEN Forbidden("403 Not authenticated") ELSE Ok

\* is_active is tested in the place of is_admin
require_admin_active(user) ==
    IF ~user.is_active
    THEN Forbidden("403 Only admins can perform this operation")
    ELSE Ok

require_admin(user) ==
    IF ~user.is_admin
    THEN Forbidden("403 Only admins can perform this operation")
    ELSE Ok

\* the dependencies of the v1 router, in their order
V1Dependencies(credentials) ==
    LET user == _authenticate(credentials) IN
    IF auth_and_return_user(user).status # 200 THEN auth_and_return_user(user)
    ELSE require_active_user(user)

\* the dependencies of the profiles and checks routers: those of the v1
\* router, then require_admin
AdminDependencies(credentials) ==
    LET user == _authenticate(credentials) IN
    IF V1Dependencies(credentials).status # 200 THEN V1Dependencies(credentials)
    ELSE require_admin(user)

NoAdminReq == [n |-> 0, op |-> "", credentials |-> NoCredentials, status |-> 0]

----------------------------------------------------------------------------
(* Specification *)

Init ==
    /\ \E b \in Bindings :
          profiles = <<[id |-> 1, name |-> DefaultProfile, check_ids |-> b],
                       [id |-> 2, name |-> "other", check_ids |-> <<5, 2>>]>>
    /\ checks = [id \in CheckIds |-> CheckTable[id]]
    /\ pc = [c \in Calls |-> "idle"]
    /\ profile = [c \in Calls |-> ""]
    /\ data = [c \in Calls |-> [kind |-> TEXT, content |-> Unset]]
    /\ db_profile = [c \in Calls |-> NoProfile]
    /\ idx = [c \in Calls |-> 0]
    /\ check_results = [c \in Calls |-> <<>>]
    /\ rpc = [c \in Calls |-> NoRpc]
    /\ outcome = [c \in Calls |-> NoOutcome]
    /\ run_log = [c \in Calls |-> <<>>]
    /\ contacted = <<>>
    /\ replies = <<>>
    /\ u_check = ModelValidate(CheckTable[1])
    /\ u_data = <<>>
    /\ u_out = <<>>
    /\ NoOrder
    /\ users = StoredUsers
    /\ next_id = [profile |-> 3, check |-> Len(CheckTable) + 1]
    /\ creds = [c \in Calls |-> NoCredentials]
    /\ current_user = [c \in Calls |-> NoUser]
    /\ admin_req = NoAdminReq

Next ==
    \E c \in Calls :
        \/ Resolve(c)
        \/ Dispatch(c)
        \/ RpcReturn(c)
        \/ RpcFail(c)

Spec == Init /\ [][Next]_vars

\* the event loop runs a call that can take a step of its own; nothing
\* makes a backend answer
SpecLive == Init /\ [][Next]_vars /\ \A c \in Calls : WF_vars(Dispatch(c))

----------------------------------------------------------------------------
(* Check.run called directly on one Check object and two payloads *)

UnitNames ==
    {LocalDummyPrefix \o <<"a">>, <<"local", ":", "dummy">>, <<"remote", ":", "x">>}

UnitSupported == {<<>>, <<TEXT>>, <<IMAGE>>, <<TEXT, IMAGE>>}

UnitStrings ==
    {"true", "TRUE", "True", "tRuE", "false", "False", "FALSE",
     "yes", "YES", "1", "0", ""}

UnitValues ==
    {BoolVal(b) : b \in BOOLEAN}
    \cup {StrVal(str) : str \in UnitStrings}
    \cup {IntVal(n) : n \in -MaxNum..MaxNum}
    \cup {FloatVal(n) : n \in -MaxNum..MaxNum}

\* a config with keys, none of them "result"
OtherConfig == [none |-> FALSE, kv |-> [k \in {"threshold"} |-> IntVal(1)]]

UnitConfigs ==
    {NoConfig, EmptyConfig, OtherConfig} \cup {ResultConfig(v) : v \in UnitValues}

UnitChecks ==
    [name : UnitNames, upstream_services : {<<"addr1">>},
     supported_types : UnitSupported, config : UnitConfigs]

InitUnit ==
    /\ profiles = <<>>
    /\ checks = <<>>
    /\ pc = [c \in Calls |-> "idle"]
    /\ profile = [c \in Calls |-> ""]
    /\ data = [c \in Calls |-> [kind |-> TEXT, content |-> Unset]]
    /\ db_profile = [c \in Calls |-> NoProfile]
    /\ idx = [c \in Calls |-> 0]
    /\ check_results = [c \in Calls |-> <<>>]
    /\ rpc = [c \in Calls |-> NoRpc]
    /\ outcome = [c \in Calls |-> NoOutcome]
    /\ run_log = [c \in Calls |-> <<>>]
    /\ contacted = <<>>
    /\ replies = <<>>
    /\ u_check \in UnitChecks
    /\ u_data \in [1..2 -> SafetyServicePayload]
    /\ u_out = <<>>
    /\ NoOrder
    /\ users = <<>>
    /\ next_id = [profile |-> 1, check |-> 1]
    /\ creds = [c \in Calls |-> NoCredentials]
    /\ current_user = [c \in Calls |-> NoUser]
    /\ admin_req = NoAdminReq

\* self.run(data) for each of the two payloads
UnitRun ==
    /\ u_out = <<>>
    /\ u_out' = [k \in 1..2 |-> run(u_check, u_data[k])]
    /\ UNCHANGED <<profiles, checks, pc, profile, data, db_profile, idx,
                   check_results, rpc, outcome, run_log, contacted, replies,
                   u_check, u_data, orderVars, apiVars>>

NextUnit == UnitRun

SpecUnit == InitUnit /\ [][NextUnit]_vars

----------------------------------------------------------------------------
(* The HTTP API: api/v1/api.py, api/v1/routers/safety.py, checks.py and  *)
(* profiles.py.  A request runs the dependencies of its route and then   *)
(* the handler; a handler that raises leaves the store as it was.        *)

ApiCheckNames == {LocalDummyPrefix \o <<"a">>, <<"remote", ":", "x">>}

ApiProfileNames == {DefaultProfile, "strict"}

\* an optional field of a request: given, or left out
Given(v) == [set |-> TRUE, v |-> v]

LeftOut == [set |-> FALSE, v |-> <<>>]

\* the request bodies that are sent.  A local stub is created with a True
\* result and no address, a remote check with one address and no config.
ChecksCreateCheckRequest ==
    {[name |-> n, profiles |-> p,
      upstream_services |-> IF StartsWith(n, LocalDummyPrefix) THEN <<>> ELSE <<"addr1">>,
      supported_types |-> t,
      config |-> IF StartsWith(n, LocalDummyPrefix)
                 THEN ResultConfig(BoolVal(TRUE)) ELSE EmptyConfig] :
        n \in ApiCheckNames, p \in {<<>>, <<DefaultProfile>>},
        t \in {<<>>, <<TEXT, IMAGE>>}}

ChecksUpdateCheckRequest ==
    [name : ApiCheckNames,
     profiles : {LeftOut, Given(<<DefaultProfile>>)},
     upstream_services : {LeftOut},
     config : {LeftOut, Given(ResultConfig(StrVal("False")))}]

ChecksDeleteCheckRequest == [name : ApiCheckNames]

ProfilesCreateProfileRequest ==
    [name : ApiProfileNames, checks : {<<>>, <<LocalDummyPrefix \o <<"a">>>>}]

ProfilesUpdateProfileRequest ==
    [name : ApiProfileNames,
     checks : {LeftOut, Given(<<>>),
               Given(<<LocalDummyPrefix \o <<"a">>, <<"remote", ":", "x">>>>)}]

ProfilesDeleteProfileRequest == [name : ApiProfileNames]

SafetyScanRequest == [kind : {"text", "image"}, content : {"c1"}]

\* the ids of the stored checks, ascending
CheckIdSeq ==
    SelectSeq([i \in 1..(next_id.check - 1) |-> i], LAMBDA i : i \in DOMAIN checks)

\* select(Check).where(Check.name == name)
ChecksNamed(name) == SelectSeq(CheckIdSeq, LAMBDA i : checks[i].name = name)

\* select(Check).where(col(Check.name).in_(names)), in the order of the ids
ChecksIn(names) == SelectSeq(CheckIdSeq, LAMBDA i : In(checks[i].name, names))

\* select(Profile).where(Profile.name == name)
ProfilesNamed(name) == SelectSeq(profiles, LAMBDA r : r.name = name)

Without(seq, x) == SelectSeq(seq, LAMBDA y : y # x)

\* the response of a request to the profiles or checks router
Respond(op, credentials, status) ==
    admin_req' = [n |-> admin_req.n + 1, op |-> op,
                  credentials |-> credentials, status |-> status]

\* a dependency or the handler raised: nothing is committed
Refuse(op, credentials, status) ==
    /\ Respond(op, credentials, status)
    /\ UNCHANGED <<profiles, checks, next_id>>

\* what a request to the profiles or checks router leaves alone
AdminFrame ==
    UNCHANGED <<pc, profile, data, db_profile, idx, check_results, rpc,
                outcome, run_log, contacted, replies, unitVars, users,
                creds, current_user>>


\* the handlers of the checks router, called once the dependencies passed

create_check(credentials, req) ==
    IF Len(ChecksNamed(req.name)) > 0
    THEN Refuse("create_check", credentials, 500)
    ELSE LET id == next_id.check
             db_check == CheckRow(id, req.name, req.upstream_services,
                                  req.supported_types, req.config)
         IN  /\ checks' = [i \in DOMAIN checks \cup {id} |->
                              IF i = id THEN db_check ELSE checks[i]]
             /\ profiles' = [k \in 1..Len(profiles) |->
                              IF In(profiles[k].name, req.profiles)
                              THEN [profiles[k] EXCEPT !.check_ids = Append(@, id)]
                              ELSE profiles[k]]
             /\ next_id' = [next_id EXCEPT !.check = @ + 1]
             /\ Respond("create_check", credentials, 200)

update_check(credentials, req) ==
    IF Len(ChecksNamed(req.name)) = 0
    THEN Refuse("update_check", credentials, 404)
    ELSE LET id == ChecksNamed(req.name)[1] IN
         /\ profiles' =
               IF req.profiles.set
               THEN [k \in 1..Len(profiles) |->
                       [profiles[k] EXCEPT !.check_ids =
                           IF In(profiles[k].name, req.profiles.v)
                           THEN IF In(id, @) THEN @ ELSE Append(@, id)
                           ELSE Without(@, id)]]
               ELSE profiles
         /\ checks' = [checks EXCEPT ![id] =
               [@ EXCEPT !.upstream_services =
                             IF req.upstream_services.set
                             THEN req.upstream_services.v ELSE @,
                         !.config =
                             IF req.config.set THEN req.config.v ELSE @]]
         /\ UNCHANGED next_id
         /\ Respond("update_check", credentials, 200)

delete_check(credentials, req) ==
    IF Len(ChecksNamed(req.name)) = 0
    THEN Refuse("delete_check", credentials, 404)
    ELSE LET id == ChecksNamed(req.name)[1] IN
         /\ checks' = [i \in DOMAIN checks \ {id} |-> checks[i]]
         /\ profiles' = [k \in 1..Len(profiles) |->
                           [profiles[k] EXCEPT !.check_ids = Without(@, id)]]
         /\ UNCHANGED next_id
         /\ Respond("delete_check", credentials, 200)

\* the handlers of the profiles router

create_profile(credentials, req) ==
    IF Len(ProfilesNamed(req.name)) > 0
    THEN Refuse("create_profile", credentials, 500)
    ELSE /\ profiles' = Append(profiles,
                               [id |-> next_id.profile, name |-> req.name,
                                check_ids |-> ChecksIn(req.checks)])
         /\ next_id' = [next_id EXCEPT !.profile = @ + 1]
         /\ UNCHANGED checks
         /\ Respond("create_profile", credentials, 200)

update_profile(credentials, req) ==
    IF Len(ProfilesNamed(req.name)) = 0
    THEN Refuse("update_profile", credentials, 404)
    ELSE /\ profiles' = [k \in 1..Len(profiles) |->
                           IF profiles[k].name = req.name /\ req.checks.set
                           THEN [profiles[k] EXCEPT !.check_ids = ChecksIn(req.checks.v)]
                           ELSE profiles[k]]
         /\ UNCHANGED <<checks, next_id>>
         /\ Respond("update_profile", credentials, 200)

\* User.default_profile is a foreign key to profile.name: a profile that a
\* user refers to is not deleted
delete_profile(credentials, req) ==
    IF Len(ProfilesNamed(req.name)) = 0
    THEN Refuse("delete_profile", credentials, 404)
    ELSE IF \E k \in 1..Len(users) : users[k].default_profile = req.name
    THEN Refuse("delete_profile", credentials, 500)
    ELSE /\ profiles' = SelectSeq(profiles, LAMBDA r : r.name # req.name)
         /\ UNCHANGED <<checks, next_id>>
         /\ Respond("delete_profile", credentials, 200)

\* the requests to the checks router

CreateCheck ==
    /\ admin_req.n < MaxOps
    /\ \E credentials \in Credentials, req \in ChecksCreateCheckRequest :
          IF AdminDependencies(credentials).status # 200
          THEN Refuse("create_check", credentials,
                      AdminDependencies(credentials).status)
          ELSE create_check(credentials, req)
    /\ AdminFrame

UpdateCheck ==
    /\ admin_req.n < MaxOps
    /\ \E credentials \in Credentials, req \in ChecksUpdateCheckRequest :
          IF AdminDependencies(credentials).status # 200
          THEN Refuse("update_check", credentials,
                      AdminDependencies(credentials).status)
          ELSE update_check(credentials, req)
    /\ AdminFrame

DeleteCheck ==
    /\ admin_req.n < MaxOps
    /\ \E credentials \in Credentials, req \in ChecksDeleteCheckRequest :
          IF AdminDependencies(credentials).status # 200
          THEN Refuse("delete_check", credentials,
                      AdminDependencies(credentials).status)
          ELSE delete_check(credentials, req)
    /\ AdminFrame

\* the requests to the profiles router

CreateProfile ==
    /\ admin_req.n < MaxOps
    /\ \E credentials \in Credentials, req \in ProfilesCreateProfileRequest :
          IF AdminDependencies(credentials).status # 200
          THEN Refuse("create_profile", credentials,
                      AdminDependencies(credentials).status)
          ELSE create_profile(credentials, req)
    /\ AdminFrame

UpdateProfile ==
    /\ admin_req.n < MaxOps
    /\ \E credentials \in Credentials, req \in ProfilesUpdateProfileRequest :
          IF AdminDependencies(credentials).status # 200
          THEN Refuse("update_profile", credentials,
                      AdminDependencies(credentials).status)
          ELSE update_profile(credentials, req)
    /\ AdminFrame

DeleteProfile ==
    /\ admin_req.n < MaxOps
    /\ \E credentials \in Credentials, req \in ProfilesDeleteProfileRequest :
          IF AdminDependencies(credentials).status # 200
          THEN Refuse("delete_profile", credentials,
                      AdminDependencies(credentials).status)
          ELSE delete_profile(credentials, req)
    /\ AdminFrame

\* SafetyServicePayloadText.model_validate(req.model_dump()) and its image
\* counterpart
ToPayload(req) ==
    IF req.kind = "text" THEN [kind |-> TEXT, content |-> req.content]
    ELSE [kind |-> IMAGE, content |-> req.content]

\* the profile that the handler of /safety/scan evaluates
ScanProfile(user) ==
    IF user.default_profile = None THEN DefaultProfile
    ELSE user.default_profile

\* POST /safety/scan: the dependencies of the v1 router, then the handler up
\* to the first pass through the loop of predict
Scan(c) ==
    /\ pc[c] = "idle"
    /\ \E credentials \in Credentials, req \in SafetyScanRequest :
          /\ creds' = [creds EXCEPT ![c] = credentials]
          /\ IF V1Dependencies(credentials).status # 200
             THEN /\ outcome' = [outcome EXCEPT ![c] =
                                   Raised(V1Dependencies(credentials).error)]
                  /\ pc' = [pc EXCEPT ![c] = "done"]
                  /\ UNCHANGED <<current_user, profile, data, db_profile, idx,
                                 check_results, profiles, checks, rpc,
                                 run_log, contacted, replies>>
             ELSE /\ current_user' = [current_user EXCEPT ![c] =
                                        _authenticate(credentials)]
                  /\ Predict(c, ScanProfile(_authenticate(credentials)),
                             ToPayload(req))
    /\ UNCHANGED <<unitVars, users, next_id, admin_req>>

\* a fresh installation (create_default_profile, create_root_user) in which
\* root created the other users
InitApi ==
    /\ profiles = <<[id |-> 1, name |-> DefaultProfile, check_ids |-> <<>>]>>
    /\ checks = <<>>
    /\ next_id = [profile |-> 2, check |-> 1]
    /\ users = StoredUsers
    /\ pc = [c \in Calls |-> "idle"]
    /\ profile = [c \in Calls |-> ""]
    /\ data = [c \in Calls |-> [kind |-> TEXT, content |-> Unset]]
    /\ db_profile = [c \in Calls |-> NoProfile]
    /\ idx = [c \in Calls |-> 0]
    /\ check_results = [c \in Calls |-> <<>>]
    /\ rpc = [c \in Calls |-> NoRpc]
    /\ outcome = [c \in Calls |-> NoOutcome]
    /\ run_log = [c \in Calls |-> <<>>]
    /\ contacted = <<>>
    /\ replies = <<>>
    /\ creds = [c \in Calls |-> NoCredentials]
    /\ current_user = [c \in Calls |-> NoUser]
    /\ admin_req = NoAdminReq
    /\ u_check = ModelValidate(CheckTable[1])
    /\ u_data = <<>>
    /\ u_out = <<>>
    /\ NoOrder

NextApi ==
    \/ \E c \in Calls :
          \/ Scan(c)
          \/ Dispatch(c)
          \/ RpcReturn(c)
          \/ RpcFail(c)
    \/ CreateCheck
    \/ UpdateCheck
    \/ DeleteCheck
    \/ CreateProfile
    \/ UpdateProfile
    \/ DeleteProfile

SpecApi == InitApi /\ [][NextApi]_vars

----------------------------------------------------------------------------
(* The loop of predict on two orders of the same bound checks *)

\* the lists of bound checks that are tried in both orders
OrderBindings == {b \in Bindings : Len(b) <= MaxPerm}

\* the sequences that hold the elements of b in some order
OrdersOf(b) ==
    {p \in [1..Len(b) -> {b[k] : k \in 1..Len(b)}] :
        \A j, k \in 1..Len(p) : j # k => p[j] # p[k]}

NamesOf(b) == [k \in 1..Len(b) |-> CheckTable[b[k]].name]

InitOrder ==
    /\ profiles = <<>>
    /\ checks = <<>>
    /\ pc = [c \in Calls |-> "idle"]
    /\ profile = [c \in Calls |-> ""]
    /\ data = [c \in Calls |-> [kind |-> TEXT, content |-> Unset]]
    /\ db_profile = [c \in Calls |-> NoProfile]
    /\ idx = [c \in Calls |-> 0]
    /\ check_results = [c \in Calls |-> <<>>]
    /\ rpc = [c \in Calls |-> NoRpc]
    /\ outcome = [c \in Calls |-> NoOutcome]
    /\ run_log = [c \in Calls |-> <<>>]
    /\ contacted = <<>>
    /\ replies = <<>>
    /\ u_check = ModelValidate(CheckTable[1])
    /\ u_data = <<>>
    /\ u_out = <<>>
    /\ users = <<>>
    /\ next_id = [profile |-> 1, check |-> 1]
    /\ creds = [c \in Calls |-> NoCredentials]
    /\ current_user = [c \in Calls |-> NoUser]
    /\ admin_req = NoAdminReq
    /\ \E b \in OrderBindings :
          /\ \E p \in OrdersOf(b) : o_checks = <<NamesOf(b), NamesOf(p)>>
          /\ o_results \in [{CheckTable[b[k]].name : k \in 1..Len(b)} -> BOOLEAN]
    /\ o_out = <<>>

\* lines 48-60 of predict for each of the two orders
OrderRun ==
    /\ o_out = <<>>
    /\ o_out' = [k \in 1..2 |-> ForLoop(o_checks[k], o_results, 1, <<>>)]
    /\ UNCHANGED <<profiles, checks, pc, profile, data, db_profile, idx,
                   check_results, rpc, outcome, run_log, contacted, replies,
                   u_check, u_data, u_out, o_checks, o_results, apiVars>>

NextOrder == OrderRun

SpecOrder == InitOrder /\ [][NextOrder]_vars

----------------------------------------------------------------------------
(* Two calls of predict at the same time, on a store that does not change *)

TwoCalls == {1, 2}

\* the default profile binds a local stub, the remote check and a local
\* stub for text only; the other profile the remote check and a local stub
InitTwo ==
    /\ profiles = <<[id |-> 1, name |-> DefaultProfile, check_ids |-> <<1, 5, 3>>],
                    [id |-> 2, name |-> "other", check_ids |-> <<5, 2>>]>>
    /\ checks = [id \in CheckIds |-> CheckTable[id]]
    /\ pc = [c \in TwoCalls |-> "idle"]
    /\ profile = [c \in TwoCalls |-> ""]
    /\ data = [c \in TwoCalls |-> [kind |-> TEXT, content |-> Unset]]
    /\ db_profile = [c \in TwoCalls |-> NoProfile]
    /\ idx = [c \in TwoCalls |-> 0]
    /\ check_results = [c \in TwoCalls |-> <<>>]
    /\ rpc = [c \in TwoCalls |-> NoRpc]
    /\ outcome = [c \in TwoCalls |-> NoOutcome]
    /\ run_log = [c \in TwoCalls |-> <<>>]
    /\ contacted = <<>>
    /\ replies = <<>>
    /\ u_check = ModelValidate(CheckTable[1])
    /\ u_data = <<>>
    /\ u_out = <<>>
    /\ NoOrder
    /\ users = StoredUsers
    /\ next_id = [profile |-> 3, check |-> Len(CheckTable) + 1]
    /\ creds = [c \in TwoCalls |-> NoCredentials]
    /\ current_user = [c \in TwoCalls |-> NoUser]
    /\ admin_req = NoAdminReq

NextTwo ==
    \E c \in TwoCalls :
        \/ Resolve(c)
        \/ Dispatch(c)
        \/ RpcReturn(c)
        \/ RpcFail(c)

SpecTwo == InitTwo /\ [][NextTwo]_vars

----------------------------------------------------------------------------
(* The HTTP API with two scan requests *)

\* an installation in which root has created a local stub that gives True
\* and a remote check, and has bound the stub to the default profile
InitApiTwo ==
    /\ profiles = <<[id |-> 1, name |-> DefaultProfile, check_ids |-> <<1>>]>>
    /\ checks = <<CheckRow(1, LocalDummyPrefix \o <<"a">>, <<>>, <<TEXT, IMAGE>>,
                           ResultConfig(BoolVal(TRUE))),
                  CheckRow(2, <<"remote", ":", "x">>, <<"addr1">>, <<TEXT, IMAGE>>,
                           EmptyConfig)>>
    /\ next_id = [profile |-> 2, check |-> 3]
    /\ users = StoredUsers
    /\ pc = [c \in TwoCalls |-> "idle"]
    /\ profile = [c \in TwoCalls |-> ""]
    /\ data = [c \in TwoCalls |-> [kind |-> TEXT, content |-> Unset]]
    /\ db_profile = [c \in TwoCalls |-> NoProfile]
    /\ idx = [c \in TwoCalls |-> 0]
    /\ check_results = [c \in TwoCalls |-> <<>>]
    /\ rpc = [c \in TwoCalls |-> NoRpc]
    /\ outcome = [c \in TwoCalls |-> NoOutcome]
    /\ run_log = [c \in TwoCalls |-> <<>>]
    /\ contacted = <<>>
    /\ replies = <<>>
    /\ creds = [c \in TwoCalls |-> NoCredentials]
    /\ current_user = [c \in TwoCalls |-> NoUser]
    /\ admin_req = NoAdminReq
    /\ u_check = ModelValidate(CheckTable[1])
    /\ u_data = <<>>
    /\ u_out = <<>>
    /\ NoOrder

NextApiTwo ==
    \/ \E c \in TwoCalls :
          \/ Scan(c)
          \/ Dispatch(c)
          \/ RpcReturn(c)
          \/ RpcFail(c)
    \/ admin_req.n < MaxChanges /\ CreateCheck
    \/ admin_req.n < MaxChanges /\ UpdateCheck
    \/ admin_req.n < MaxChanges /\ DeleteCheck
    \/ admin_req.n < MaxChanges /\ CreateProfile
    \/ admin_req.n < MaxChanges /\ UpdateProfile
    \/ admin_req.n < MaxChanges /\ DeleteProfile

SpecApiTwo == InitApiTwo /\ [][NextApiTwo]_vars

----------------------------------------------------------------------------
(* Startup (main.py, _lifespan; core/database.py) and the scans after it *)

\* the default profile is made anew at every start
create_default_profile_reset(rows) ==
    Append(SelectSeq(rows, LAMBDA r : r.name # DefaultProfile),
           [id |-> next_id.profile, name |-> DefaultProfile, check_ids |-> <<>>])

\* the Profile table after create_default_profile
create_default_profile(rows) ==
    IF Len(SelectSeq(rows, LAMBDA r : r.name = DefaultProfile)) > 0 THEN rows
    ELSE Append(rows, [id |-> next_id.profile, name |-> DefaultProfile,
                       check_ids |-> <<>>])

\* the User table after create_root_user; root is the user whose contact is
\* settings.root_contact
create_root_user(rows) ==
    IF Len(SelectSeq(rows, LAMBDA u : u.name = "root")) > 0 THEN rows
    ELSE Append(rows, UserRow(Len(rows) + 1, "root", "t-root", TRUE, TRUE,
                              DefaultProfile))

\* the database is empty, or it is that of an installation that ran before,
\* the default profile bound to some checks; the application is down
InitBoot ==
    /\ \/ /\ profiles = <<>>
          /\ checks = <<>>
          /\ users = <<>>
          /\ next_id = [profile |-> 1, check |-> 1]
       \/ /\ \E b \in Bindings :
                profiles = <<[id |-> 1, name |-> DefaultProfile, check_ids |-> b],
                             [id |-> 2, name |-> "other", check_ids |-> <<5, 2>>]>>
          /\ checks = [id \in CheckIds |-> CheckTable[id]]
          /\ users = StoredUsers
          /\ next_id = [profile |-> 3, check |-> Len(CheckTable) + 1]
    /\ pc = [c \in Calls |-> "down"]
    /\ profile = [c \in Calls |-> ""]
    /\ data = [c \in Calls |-> [kind |-> TEXT, content |-> Unset]]
    /\ db_profile = [c \in Calls |-> NoProfile]
    /\ idx = [c \in Calls |-> 0]
    /\ check_results = [c \in Calls |-> <<>>]
    /\ rpc = [c \in Calls |-> NoRpc]
    /\ outcome = [c \in Calls |-> NoOutcome]
    /\ run_log = [c \in Calls |-> <<>>]
    /\ contacted = <<>>
    /\ replies = <<>>
    /\ creds = [c \in Calls |-> NoCredentials]
    /\ current_user = [c \in Calls |-> NoUser]
    /\ admin_req = NoAdminReq
    /\ u_check = ModelValidate(CheckTable[1])
    /\ u_data = <<>>
    /\ u_out = <<>>
    /\ NoOrder

\* _lifespan up to its yield: requests are served from then on
Startup ==
    /\ \A c \in DOMAIN pc : pc[c] = "down"
    /\ profiles' = create_default_profile(profiles)
    /\ next_id' = IF Len(create_default_profile(profiles)) > Len(profiles)
                  THEN [next_id EXCEPT !.profile = @ + 1] ELSE next_id
    /\ users' = create_root_user(users)
    /\ pc' = [c \in DOMAIN pc |-> "idle"]
    /\ UNCHANGED <<checks, profile, data, db_profile, idx, check_results, rpc,
                   outcome, run_log, contacted, replies, unitVars, creds,
                   current_user, admin_req>>

NextBoot ==
    \/ Startup
    \/ \E c \in Calls :
          \/ Scan(c)
          \/ Dispatch(c)
          \/ RpcReturn(c)
          \/ RpcFail(c)

SpecBoot == InitBoot /\ [][NextBoot]_vars

----------------------------------------------------------------------------
(* What the properties speak about *)

\* the names of the stored profiles
StoredProfiles == {profiles[k].name : k \in 1..Len(profiles)}

\* the rows of the checks that the store binds to the profile called p
BoundChecks(p) ==
    {checks[id] : id \in UNION {{profiles[k].check_ids[j] :
                                    j \in 1..Len(profiles[k].check_ids)} :
                                k \in {n \in 1..Len(profiles) : profiles[n].name = p}}}

\* the calls of Check.run of call c that returned b
RanWith(c, b) ==
    {k \in 1..Len(run_log[c]) : ~run_log[c][k].raised /\ run_log[c][k].result = b}

NumTrue(c) == Cardinality(RanWith(c, TRUE))

NumFalse(c) == Cardinality(RanWith(c, FALSE))

\* every call of Check.run of call c returned a result that the mapping m
\* reports under the name of the check
ReportsEach(c, m) ==
    \A k \in 1..Len(run_log[c]) :
        /\ ~run_log[c][k].raised
        /\ DictHas(m, run_log[c][k].name)
        /\ DictGet(m, run_log[c][k].name) = run_log[c][k].result

----------------------------------------------------------------------------
(* Properties of the aggregation *)

C4_TieFailsClosed ==
    \A c \in Calls :
        (/\ outcome[c].returned
         /\ NumTrue(c) = NumFalse(c)
         /\ NumTrue(c) >= 1)
        => /\ outcome[c].verdict = FALSE
           /\ ReportsEach(c, outcome[c].checks)

\* two true and two false
C4_Witness ==
    \E c \in Calls :
        /\ outcome[c].returned
        /\ NumTrue(c) = 2
        /\ NumFalse(c) = 2
        /\ outcome[c].verdict = FALSE
        /\ ReportsEach(c, outcome[c].checks)

----------------------------------------------------------------------------
(* Properties of the evaluation and of the dispatch *)

\* the channels that call c opened
ContactsOf(c) == {k \in 1..Len(contacted) : contacted[k].call = c}

\* the payload kind d is among the supported types of a check
Supports(supported_types, d) ==
    \E k \in 1..Len(supported_types) : supported_types[k] = d.kind

\* C6: predict ends with a Verdict or with an error, never with both; when
\* a call of Check.run has failed, predict has ended with the error of that
\* call and without a Verdict or any part of one, whatever the checks before
\* it returned.
C6_ErrorOrVerdict ==
    \A c \in Calls :
        /\ ~(outcome[c].returned /\ outcome[c].raised)
        /\ (pc[c] = "done" <=> (outcome[c].returned \/ outcome[c].raised))
        /\ \A k \in 1..Len(run_log[c]) :
              run_log[c][k].raised =>
                 /\ pc[c] = "done"
                 /\ outcome[c].raised
                 /\ ~outcome[c].returned
                 /\ outcome[c].error = run_log[c][k].error
                 /\ outcome[c].checks = <<>>
                 /\ k = Len(run_log[c])

\* a remote check fails after two other checks have produced a result
C6_Witness ==
    \E c \in Calls :
        /\ Len(run_log[c]) = 3
        /\ ~run_log[c][1].raised
        /\ ~run_log[c][2].raised
        /\ run_log[c][3].raised
        /\ run_log[c][3].error = "RpcError"
        /\ Len(check_results[c]) = 2
        /\ outcome[c].raised

\* C7: whenever predict returns a Verdict, the keys of its mapping are the
\* names of the checks that the store binds to the profile, each key maps
\* to the boolean that Check.run returned for that check, and the overall
\* verdict is the strict majority over that mapping.
C7_CompleteVerdict ==
    \A c \in Calls :
        outcome[c].returned =>
            LET m == outcome[c].checks IN
            /\ DictKeys(m) = {ch.name : ch \in BoundChecks(profile[c])}
            /\ Len(m) = Cardinality(BoundChecks(profile[c]))
            /\ Len(run_log[c]) = Len(m)
            /\ ReportsEach(c, m)
            /\ outcome[c].verdict <=>
                  (Cardinality({n \in DictKeys(m) : DictGet(m, n)})
                     > Cardinality({n \in DictKeys(m) : ~DictGet(m, n)}))

\* a Verdict over four checks, one of them remote
C7_Witness ==
    \E c \in Calls :
        /\ outcome[c].returned
        /\ Len(outcome[c].checks) = 4
        /\ ContactsOf(c) # {}
        /\ DictKeys(outcome[c].checks) = {ch.name : ch \in BoundChecks(profile[c])}

\* C8: a call of Check.run with a payload whose kind is not among the
\* supported types of the check raises NotImplementedError and returns no
\* boolean, for a local stub check as for a remote one: no result is
\* recorded for the check and no channel is opened for it.
C8_UnsupportedKindRaises ==
    \A c \in Calls :
        /\ \A k \in 1..Len(run_log[c]) :
              ~Supports(run_log[c][k].supported_types, run_log[c][k].data) =>
                 /\ run_log[c][k].raised
                 /\ run_log[c][k].error = "NotImplementedError"
                 /\ ~DictHas(check_results[c], run_log[c][k].name)
        /\ \A k \in ContactsOf(c) :
              \A ch \in BoundChecks(profile[c]) :
                  ch.name = contacted[k].name => Supports(ch.supported_types, data[c])

\* a local stub check that supports text only is run on an image
C8_Witness ==
    \E c \in Calls :
        \E k \in 1..Len(run_log[c]) :
            /\ StartsWith(run_log[c][k].name, LocalDummyPrefix)
            /\ run_log[c][k].data.kind = IMAGE
            /\ ~Supports(run_log[c][k].supported_types, run_log[c][k].data)
            /\ run_log[c][k].error = "NotImplementedError"

\* C9: when a check bound to the profile does not support the kind of the
\* payload, predict returns no Verdict; once it has ended it has ended with
\* an error, whatever the other checks returned and wherever the check
\* stands in the list.
C9_UnsupportedAborts ==
    \A c \in Calls :
        (/\ pc[c] # "idle"
         /\ \E ch \in BoundChecks(profile[c]) : ~Supports(ch.supported_types, data[c]))
        => /\ ~outcome[c].returned
           /\ pc[c] = "done" => outcome[c].raised

\* the unsupported check is the last of three, after two checks that passed
C9_Witness ==
    \E c \in Calls :
        /\ pc[c] = "done"
        /\ Len(db_profile[c].checks) = 3
        /\ Len(run_log[c]) = 3
        /\ NumTrue(c) = 2
        /\ ~Supports(run_log[c][3].supported_types, data[c])
        /\ outcome[c].raised
        /\ ~outcome[c].returned

\* C10: predict on a profile name that the store does not hold raises the
\* 404 "Profile not found" error; no check is run, no channel is opened and
\* no Verdict is returned.
C10_ProfileNotFound ==
    \A c \in Calls :
        (pc[c] # "idle" /\ profile[c] \notin StoredProfiles)
        => /\ pc[c] = "done"
           /\ outcome[c].raised
           /\ outcome[c].error = "404 Profile not found"
           /\ ~outcome[c].returned
           /\ run_log[c] = <<>>
           /\ check_results[c] = <<>>
           /\ ContactsOf(c) = {}

C10_Witness ==
    \E c \in Calls :
        /\ pc[c] = "done"
        /\ profile[c] = "missing"
        /\ "missing" \notin StoredProfiles
        /\ outcome[c].error = "404 Profile not found"
        /\ contacted = <<>>

----------------------------------------------------------------------------
(* Properties of the remote strategy and of the pipeline *)

\* the channels that call c opened for the check called name
ContactsFor(c, name) == {k \in ContactsOf(c) : contacted[k].name = name}

\* the upstream addresses of the check called name that call c evaluates
UpstreamOf(c, name) ==
    (CHOOSE ch \in BoundChecks(profile[c]) : ch.name = name).upstream_services

\* the entry of run_log is a run that took the remote strategy
IsRemoteRun(e) ==
    /\ Supports(e.supported_types, e.data)
    /\ ~StartsWith(e.name, LocalDummyPrefix)

C17_RequestAndResult ==
    /\ \A k \in 1..Len(contacted) :
          LET req == contacted[k].request
              d == data[contacted[k].call]
          IN /\ (req.text = Unset) # (req.image = Unset)
             /\ d.kind = TEXT => (req.text = d.content /\ req.image = Unset)
             /\ d.kind = IMAGE => (req.image = d.content /\ req.text = Unset)
    /\ \A k \in 1..Len(replies) :
          \E n \in 1..Len(run_log[replies[k].call]) :
              LET e == run_log[replies[k].call][n] IN
              /\ e.name = replies[k].name
              /\ ~e.raised
              /\ e.result = replies[k].response.result
              /\ DictHas(check_results[replies[k].call], e.name)
              /\ DictGet(check_results[replies[k].call], e.name)
                    = replies[k].response.result

\* an image was sent and the backend answered false
C17_Witness ==
    \E k \in 1..Len(replies) :
        /\ replies[k].response.result = FALSE
        /\ data[replies[k].call].kind = IMAGE
        /\ \E n \in 1..Len(contacted) :
              /\ contacted[n].name = replies[k].name
              /\ contacted[n].request.image = data[replies[k].call].content
        /\ ~DictGet(check_results[replies[k].call], replies[k].name)

\* the phases of predict, in their order
Phase(p) == CASE p = "idle" -> 0 [] p = "loop" -> 1 [] p = "rpc" -> 1 [] p = "done" -> 2

\* what C20 says of one state
C20_Inv ==
    \A c \in Calls :
        /\ Len(run_log[c]) <= Len(db_profile[c].checks)
        /\ \A k \in 1..Len(run_log[c]) :
              run_log[c][k].name = db_profile[c].checks[k].name
        /\ \A j, k \in 1..Len(run_log[c]) :
              j # k => run_log[c][j].name # run_log[c][k].name
        /\ outcome[c].returned =>
              /\ pc[c] = "done"
              /\ Len(run_log[c]) = Len(db_profile[c].checks)
              /\ \A ch \in BoundChecks(profile[c]) :
                    Cardinality({k \in 1..Len(run_log[c]) :
                                    run_log[c][k].name = ch.name}) = 1
        /\ pc[c] # "done" => outcome[c] = NoOutcome

\* what C20 says of one step
C20_Step ==
    \A c \in Calls :
        /\ Phase(pc'[c]) >= Phase(pc[c])
        /\ idx'[c] >= idx[c]
        /\ db_profile'[c] # db_profile[c] => pc[c] = "idle"
        /\ profile'[c] # profile[c] => pc[c] = "idle"
        /\ pc[c] = "done" => (pc'[c] = "done" /\ outcome'[c] = outcome[c]
                                /\ run_log'[c] = run_log[c])
        /\ outcome'[c] # outcome[c] =>
              /\ outcome[c] = NoOutcome
              /\ pc'[c] = "done"
        /\ (outcome'[c].returned /\ ~outcome[c].returned) =>
              /\ Len(run_log'[c]) = Len(db_profile'[c].checks)
              /\ pc[c] \in {"idle", "loop", "rpc"}

\* C20: a call of predict goes through resolve, the runs of the checks and
\* the return in that order and never back: the profile is loaded once,
\* each bound check is run at most once and in the order of the list,
\* exactly once when a Verdict is returned, and the Verdict is built once,
\* after the last run.
C20_LinearPipeline == [](C20_Inv) /\ [][C20_Step]_vars

\* a Verdict after three runs, one of them remote
C20_Witness ==
    \E c \in Calls :
        /\ outcome[c].returned
        /\ Len(run_log[c]) = 3
        /\ \E k \in 1..3 : IsRemoteRun(run_log[c][k])
        /\ Cardinality(ContactsOf(c)) = 1
        /\ idx[c] = 4

----------------------------------------------------------------------------
(* Properties of the local stub strategy, on Check.run called directly *)

\* the check that is run is a local stub
UnitIsLocal == StartsWith(u_check.name, LocalDummyPrefix)

\* the check that is run has a config with a "result" of the given type
UnitResultIs(type) ==
    /\ ~u_check.config.none
    /\ "result" \in DOMAIN u_check.config.kv
    /\ u_check.config.kv["result"].type = type

UnitResult == u_check.config.kv["result"]

\* each run on a supported payload returned the boolean b
UnitReturns(b) ==
    \A k \in 1..Len(u_out) :
        Supports(u_check.supported_types, u_data[k]) =>
            u_out[k].kind = "return" /\ u_out[k].value = b

UnitRanSupported ==
    /\ u_out # <<>>
    /\ \E k \in 1..2 : Supports(u_check.supported_types, u_data[k])

\* C11: a local stub check whose config["result"] is a string returns true
\* when the string is "true" in any mix of cases and false for every other
\* string, "1" included.
C11_StringResult ==
    (UnitIsLocal /\ UnitResultIs("str")) =>
        UnitReturns(UnitResult.s \in {"true", "TRUE", "True", "tRuE"})

C11_Witness ==
    /\ UnitIsLocal
    /\ UnitResultIs("str")
    /\ UnitResult.s = "TRUE"
    /\ UnitRanSupported
    /\ UnitReturns(TRUE)

\* C12: a local stub check whose config["result"] is a boolean returns that
\* boolean; one whose config["result"] is an integer or a float returns
\* true exactly when the number is not zero.
C12_BoolAndNumericResult ==
    /\ (UnitIsLocal /\ UnitResultIs("bool")) => UnitReturns(UnitResult.b)
    /\ (UnitIsLocal /\ UnitResultIs("int")) =>
          UnitReturns(UnitResult.n < 0 \/ UnitResult.n > 0)
    /\ (UnitIsLocal /\ UnitResultIs("float")) =>
          UnitReturns(UnitResult.n < 0 \/ UnitResult.n > 0)

\* a negative number gives true
C12_Witness ==
    /\ UnitIsLocal
    /\ UnitResultIs("float")
    /\ UnitResult.n = -1
    /\ UnitRanSupported
    /\ UnitReturns(TRUE)

\* C13: a local stub check without a config, or with a config without a
\* "result" key, returns false on a supported payload and raises nothing.
C13_MissingResult ==
    (/\ UnitIsLocal
     /\ \/ u_check.config.none
        \/ "result" \notin DOMAIN u_check.config.kv)
    => /\ UnitReturns(FALSE)
       /\ \A k \in 1..Len(u_out) :
             Supports(u_check.supported_types, u_data[k]) => u_out[k].error = ""

C13_Witness ==
    /\ UnitIsLocal
    /\ u_check.config = OtherConfig
    /\ UnitRanSupported
    /\ UnitReturns(FALSE)

\* C15 as stated: a local stub check gives the same outcome on any two
\* payloads, whatever their kind and content.
C15_SameOutcomeAnyPayloads ==
    (UnitIsLocal /\ u_out # <<>>) => u_out[1] = u_out[2]

\* C15, amended: a local stub check gives the same outcome on any two
\* payloads whose kinds are both supported, or both unsupported, by the
\* check, whatever their content.
C15_SameOutcomeSameSupport ==
    (/\ UnitIsLocal
     /\ u_out # <<>>
     /\ Supports(u_check.supported_types, u_data[1])
           <=> Supports(u_check.supported_types, u_data[2]))
    => u_out[1] = u_out[2]

\* a text and an image with different contents give the same result
C15_Witness ==
    /\ UnitIsLocal
    /\ u_out # <<>>
    /\ u_data[1].kind = TEXT
    /\ u_data[2].kind = IMAGE
    /\ u_data[1].content # u_data[2].content
    /\ Supports(u_check.supported_types, u_data[1])
    /\ Supports(u_check.supported_types, u_data[2])
    /\ u_out[1] = u_out[2]
    /\ u_out[1].kind = "return"


----------------------------------------------------------------------------
(* Properties of the HTTP API *)

\* the credentials are the token of a stored user who is active
ActiveUserToken(credentials) ==
    /\ credentials # NoCredentials
    /\ \E k \in 1..Len(users) :
          /\ users[k].signed_token = sign(credentials)
          /\ users[k].is_active

\* the credentials are the token of a stored user who is no admin
NonAdminToken(credentials) ==
    /\ credentials # NoCredentials
    /\ \E k \in 1..Len(users) :
          /\ users[k].signed_token = sign(credentials)
          /\ ~users[k].is_admin

\* the credentials are the token of a stored user who is an admin
AdminToken(credentials) ==
    /\ credentials # NoCredentials
    /\ \E k \in 1..Len(users) :
          /\ users[k].signed_token = sign(credentials)
          /\ users[k].is_admin

\* the scan looked a profile up or dispatched a check
Evaluated(c) ==
    \/ profile[c] # ""
    \/ db_profile[c] # NoProfile
    \/ run_log[c] # <<>>
    \/ rpc[c] # NoRpc
    \/ ContactsOf(c) # {}

\* C18: a safety scan looks a profile up or dispatches a check only for a
\* request whose bearer token is that of a stored, active user; a request
\* with no credentials, with a token of no user, or of an inactive user ends
\* with status 403 and without any profile lookup or dispatch.
C18_ScanOnlyForActiveUser ==
    \A c \in Calls :
        /\ Evaluated(c) => ActiveUserToken(creds[c])
        /\ (pc[c] # "idle" /\ ~ActiveUserToken(creds[c])) =>
              /\ pc[c] = "done"
              /\ outcome[c] = Raised("403 Not authenticated")
              /\ ~Evaluated(c)

\* an inactive user asked for a scan of a profile that binds a check, and
\* was turned away
C18_Witness ==
    /\ pc[1] = "done"
    /\ creds[1] = "t-bob"
    /\ outcome[1] = Raised("403 Not authenticated")
    /\ \E k \in 1..Len(profiles) :
          /\ profiles[k].name = DefaultProfile
          /\ Len(profiles[k].check_ids) > 0

\* a step that is a request to the profiles or checks router
C19_Step ==
    /\ admin_req' # admin_req =>
          /\ NonAdminToken(admin_req'.credentials) =>
                /\ admin_req'.status = 403
                /\ UNCHANGED <<profiles, checks>>
          /\ ~AdminToken(admin_req'.credentials) =>
                UNCHANGED <<profiles, checks>>
    /\ <<profiles, checks>>' # <<profiles, checks>> =>
          /\ admin_req' # admin_req
          /\ AdminToken(admin_req'.credentials)

\* C19: profiles, checks and their bindings are changed only by admins:
\* every create, update or delete request on the profiles or checks routers
\* by a user with is_admin = false gets status 403 and leaves the stored
\* profiles, checks and bindings as they were.
C19_OnlyAdminsChange == [][C19_Step]_vars

\* an active user who is no admin asked to delete a check that exists, and
\* got 403
C19_Witness ==
    /\ admin_req.n > 0
    /\ admin_req.op = "delete_check"
    /\ admin_req.credentials = "t-alice"
    /\ admin_req.status = 403
    /\ DOMAIN checks # {}


----------------------------------------------------------------------------
(* Properties of the loop of predict as a function *)

\* two dicts are equal: the same keys with the same values
SameMapping(m1, m2) ==
    /\ DictKeys(m1) = DictKeys(m2)
    /\ \A n \in DictKeys(m1) : DictGet(m1, n) = DictGet(m2, n)

\* C21: when every run succeeds, the Verdict does not depend on the order
\* in which the bound checks are run: for two orders of the same bound
\* checks with the same result for each check, the overall verdict is the
\* same and the per-check mappings are equal, each holding the result of
\* every bound check.
C21_OrderIndependent ==
    o_out # <<>> =>
        /\ o_out[1].verdict = o_out[2].verdict
        /\ SameMapping(o_out[1].checks, o_out[2].checks)
        /\ \A k \in 1..2 :
              /\ DictKeys(o_out[k].checks) = DOMAIN o_results
              /\ \A n \in DOMAIN o_results :
                    DictGet(o_out[k].checks, n) = o_results[n]

\* three checks, two of them true, run in two orders that differ in every
\* position
C21_Witness ==
    /\ o_out # <<>>
    /\ Len(o_checks[1]) = 3
    /\ \A k \in 1..3 : o_checks[1][k] # o_checks[2][k]
    /\ Cardinality({n \in DOMAIN o_results : o_results[n]}) = 2
    /\ o_out[1].verdict
    /\ o_out[2].verdict
    /\ o_out[1].checks # o_out[2].checks

\* the values of a mapping that are b
ValuesThat(m, b) == {k \in 1..Len(m) : m[k][2] = b}

\* the built-in all over the values of a mapping
BuiltinAll(m) == ValuesThat(m, FALSE) = {}

----------------------------------------------------------------------------
(* Properties of two calls at the same time *)

\* the responses that the backends gave to call c, in their order
OwnReplies(c) == SelectSeq(replies, LAMBDA r : r.call = c)

\* what predict gives for the arguments of call c when it runs with no other
\* call, the backends answering as they answered call c (and failing after
\* their last answer)
RECURSIVE AloneFrom(_, _, _, _, _)
AloneFrom(c, row, k, results, n) ==
    IF k > Len(row.checks) THEN Returned(Verdict(results))
    ELSE LET self == ModelValidate(row.checks[k])
             r == run(self, data[c])
         IN  IF r.kind = "raise" THEN Raised(r.error)
             ELSE IF r.kind = "return"
             THEN AloneFrom(c, row, k + 1, DictSet(results, self.name, r.value), n)
             ELSE IF Len(self.upstream_services) = 0 THEN Raised("IndexError")
             ELSE IF n < Len(OwnReplies(c))
             THEN AloneFrom(c, row, k + 1,
                            DictSet(results, self.name,
                                    OwnReplies(c)[n + 1].response.result),
                            n + 1)
             ELSE Raised("RpcError")

Alone(c) ==
    IF SelectProfile(profile[c]) = NoProfile THEN Raised("404 Profile not found")
    ELSE AloneFrom(c, SelectProfile(profile[c]), 1, <<>>, 0)

\* the mapping m holds the results of the runs of call c that returned,
\* and nothing else
OwnResultsOnly(c, m) ==
    /\ DictKeys(m) = {run_log[c][k].name :
                         k \in {n \in 1..Len(run_log[c]) : ~run_log[c][n].raised}}
    /\ Len(m) = Cardinality(DictKeys(m))
    /\ \A k \in 1..Len(run_log[c]) :
          ~run_log[c][k].raised => DictGet(m, run_log[c][k].name) = run_log[c][k].result

\* C22: two calls of predict on a store that does not change are
\* independent under every interleaving of their steps: each ends with the
\* outcome it has when it runs alone, and the mapping of a call holds the
\* results of its own runs, all of them and no others.
C22_CallsIndependent ==
    \A c \in DOMAIN pc :
        /\ pc[c] = "done" => outcome[c] = Alone(c)
        /\ pc[c] # "idle" =>
              /\ OwnResultsOnly(c, check_results[c])
              /\ \A k \in 1..Len(run_log[c]) :
                    /\ run_log[c][k].data = data[c]
                    /\ run_log[c][k].name = db_profile[c].checks[k].name
        /\ outcome[c].returned => OwnResultsOnly(c, outcome[c].checks)

\* both calls went through their remote run while the other was under way,
\* on different profiles and payloads, and got different answers for the
\* same check
C22_Witness ==
    /\ pc[1] = "done"
    /\ pc[2] = "done"
    /\ profile[1] = DefaultProfile
    /\ profile[2] = "other"
    /\ data[1] # data[2]
    /\ outcome[1].returned
    /\ outcome[2].returned
    /\ Len(contacted) = 2
    /\ contacted[1].call = 1
    /\ contacted[2].call = 2
    /\ Len(replies) = 2
    /\ replies[1].call = 2
    /\ replies[1].response.result # replies[2].response.result


----------------------------------------------------------------------------
(* Properties of the evaluation in front of a store that changes *)

\* the stored profile called p binds, in this order, exactly the stored
\* checks that the sequence loaded holds, as they are stored now
IsStoredNow(p, loaded) ==
    \E k \in 1..Len(profiles) :
        /\ profiles[k].name = p
        /\ Len(loaded) = Len(profiles[k].check_ids)
        /\ \A j \in 1..Len(loaded) : loaded[j] = checks[profiles[k].check_ids[j]]

\* what C23 says of one step: a call that enters predict loads the profile
\* and its checks as the store holds them at that moment
C23_Step ==
    \A c \in DOMAIN pc :
        (pc[c] = "idle" /\ pc'[c] # "idle" /\ profile'[c] # "") =>
            IF \E k \in 1..Len(profiles) : profiles[k].name = profile'[c]
            THEN IsStoredNow(profile'[c], db_profile'[c].checks)
            ELSE outcome'[c] = Raised("404 Profile not found")

\* what C23 says of one state: the runs of a call are runs of the checks
\* that this call loaded, and a Verdict reports exactly those checks, a
\* local stub with the result that its loaded config gives
C23_Inv ==
    \A c \in DOMAIN pc :
        /\ \A k \in 1..Len(run_log[c]) :
              /\ run_log[c][k].name = db_profile[c].checks[k].name
              /\ run_log[c][k].supported_types = db_profile[c].checks[k].supported_types
        /\ outcome[c].returned =>
              /\ DictKeys(outcome[c].checks) =
                    {db_profile[c].checks[k].name : k \in 1..Len(db_profile[c].checks)}
              /\ \A k \in 1..Len(db_profile[c].checks) :
                    StartsWith(db_profile[c].checks[k].name, LocalDummyPrefix) =>
                        DictGet(outcome[c].checks, db_profile[c].checks[k].name)
                           = handle_dummy(ModelValidate(db_profile[c].checks[k]))

\* C23: predict keeps no cache: every call reads the profile and its checks
\* from the store when it starts, so a change of the bindings of a profile
\* or of the config of a check that was committed before the call started
\* shows in its Verdict, and no call uses what an earlier call has read.
C23_NoCache == [](C23_Inv) /\ [][C23_Step]_vars

\* two scans of the default profile, one before and one after an admin
\* changed the config of the bound check: the first Verdict is True, the
\* second False
C23_Witness ==
    /\ pc[1] = "done"
    /\ pc[2] = "done"
    /\ profile[1] = DefaultProfile
    /\ profile[2] = DefaultProfile
    /\ outcome[1].returned
    /\ outcome[2].returned
    /\ outcome[1].verdict
    /\ ~outcome[2].verdict
    /\ DictKeys(outcome[1].checks) = DictKeys(outcome[2].checks)
    /\ admin_req.op = "update_check"
    /\ admin_req.status = 200


\* C24: predict never changes the store: whatever its outcome (a Verdict,
\* profile not found, an error of a run), no step of a call changes the
\* stored profiles, the stored checks with their configs, supported types
\* and upstream addresses, or the bindings.
C24_StoreUnchanged == [][profiles' = profiles /\ checks' = checks]_vars

\* a call ended with the error of a remote call, after a local run
C24_Witness ==
    \E c \in Calls :
        /\ pc[c] = "done"
        /\ outcome[c].raised
        /\ outcome[c].error = "RpcError"
        /\ Len(run_log[c]) = 2
        /\ ~run_log[c][1].raised
        /\ StartsWith(run_log[c][1].name, LocalDummyPrefix)
        /\ profiles # <<>>


----------------------------------------------------------------------------
(* Properties of the order of the runs and of their failures *)

\* the runs of call c that have begun: those that ended and the remote call
\* that is under way
Begun(c) == Len(run_log[c]) + (IF pc[c] = "rpc" THEN 1 ELSE 0)

\* what C26 says of one state
C26_Inv ==
    \A c \in Calls :
        /\ \A k \in 1..Len(run_log[c]) :
              run_log[c][k].raised =>
                 /\ k = Len(run_log[c])
                 /\ pc[c] = "done"
        /\ pc[c] = "rpc" =>
              /\ idx[c] = Len(run_log[c]) + 1
              /\ rpc[c].name = db_profile[c].checks[idx[c]].name
        /\ Cardinality(ContactsOf(c)) <= Begun(c)
        /\ Cardinality(ContactsOf(c)) =
              Cardinality({k \in 1..Len(run_log[c]) :
                              run_log[c][k].error \in {"", "RpcError"}
                              /\ IsRemoteRun(run_log[c][k])
                              /\ Len(UpstreamOf(c, run_log[c][k].name)) > 0})
                 + (IF pc[c] = "rpc" THEN 1 ELSE 0)

\* what C26 says of one step
C26_Step ==
    \A c \in Calls :
        /\ Begun(c)' <= Begun(c) + 1
        /\ Begun(c)' > Begun(c) => (pc[c] \in {"idle", "loop"} /\ rpc[c] = NoRpc)
        /\ (\E k \in 1..Len(run_log[c]) : run_log[c][k].raised) =>
              /\ run_log'[c] = run_log[c]
              /\ ContactsOf(c)' = ContactsOf(c)
              /\ pc'[c] = "done"

\* C26: the bound checks of a call are run one at a time, a run beginning
\* only when the one before it has ended, and the call is fail-fast: after
\* the first run that failed no other check is run and no upstream address
\* is contacted.
C26_FailFast == [](C26_Inv) /\ [][C26_Step]_vars

\* the first of three bound checks failed on the payload kind: the other
\* two were never run and the remote one among them was never contacted
C26_Witness ==
    \E c \in Calls :
        /\ pc[c] = "done"
        /\ Len(db_profile[c].checks) = 3
        /\ Len(run_log[c]) = 1
        /\ run_log[c][1].error = "NotImplementedError"
        /\ ContactsOf(c) = {}
        /\ ~StartsWith(db_profile[c].checks[2].name, LocalDummyPrefix)
        /\ Len(db_profile[c].checks[2].upstream_services) > 0
        /\ Supports(db_profile[c].checks[2].supported_types, data[c])


\* a check that takes the remote strategy and has no upstream address
NoAddressRemote(ch) ==
    /\ ~StartsWith(ch.name, LocalDummyPrefix)
    /\ Len(ch.upstream_services) = 0

\* C27: a remote check (its name does not begin with "local:dummy:") with
\* an empty upstream_services cannot be run: its run on a supported payload
\* fails with IndexError and contacts no address, and every call on a
\* profile that binds it ends in an error, never in a Verdict.
C27_NoAddressFails ==
    \A c \in Calls :
        /\ \A k \in 1..Len(run_log[c]) :
              (/\ IsRemoteRun(run_log[c][k])
               /\ Len(UpstreamOf(c, run_log[c][k].name)) = 0)
              => /\ run_log[c][k].raised
                 /\ run_log[c][k].error = "IndexError"
                 /\ ContactsFor(c, run_log[c][k].name) = {}
                 /\ outcome[c] = Raised("IndexError")
        /\ (\E ch \in BoundChecks(profile[c]) : NoAddressRemote(ch)) =>
              /\ ~outcome[c].returned
              /\ pc[c] = "done" => outcome[c].raised
              /\ \A k \in ContactsOf(c) :
                    \A ch \in BoundChecks(profile[c]) :
                        NoAddressRemote(ch) => contacted[k].name # ch.name

\* a local stub returned True for an image, then the remote check without
\* an address was run on it
C27_Witness ==
    \E c \in Calls :
        /\ pc[c] = "done"
        /\ data[c].kind = IMAGE
        /\ Len(run_log[c]) = 2
        /\ ~run_log[c][1].raised
        /\ run_log[c][1].result
        /\ IsRemoteRun(run_log[c][2])
        /\ Len(UpstreamOf(c, run_log[c][2].name)) = 0
        /\ run_log[c][2].error = "IndexError"
        /\ ContactsOf(c) = {}


----------------------------------------------------------------------------
(* Properties of the HTTP API with respect to supported_types *)

\* what C28 says of one step: create-check of a request without
\* supported_types stores an empty list, and no request changes the
\* supported_types of a stored check
C28_Step ==
    /\ \A req \in ChecksCreateCheckRequest :
          (/\ admin_req' # admin_req
           /\ AdminToken(admin_req'.credentials)
           /\ create_check(admin_req'.credentials, req)
           /\ admin_req'.status = 200
           /\ req.supported_types = <<>>)
          => /\ next_id.check \in DOMAIN checks'
             /\ checks'[next_id.check].name = req.name
             /\ checks'[next_id.check].supported_types = <<>>
    /\ \A id \in DOMAIN checks \cap DOMAIN checks' :
          checks'[id].supported_types = checks[id].supported_types

\* what C28 says of one state: a scan of a profile that binds a check with
\* an empty supported_types never has a Verdict, and ends in an error
C28_Inv ==
    \A c \in Calls :
        (\E k \in 1..Len(db_profile[c].checks) :
            db_profile[c].checks[k].supported_types = <<>>)
        => /\ ~outcome[c].returned
           /\ pc[c] = "done" => outcome[c].raised
           /\ \A k \in 1..Len(run_log[c]) :
                 run_log[c][k].supported_types = <<>> =>
                    run_log[c][k].error = "NotImplementedError"

\* C28: a check created without supported_types has an empty list of
\* supported types and update-check never changes it, so every scan, of a
\* text or of an image, of a profile that binds such a check ends in an
\* error and never in a Verdict, also when the check is a local stub whose
\* config says result = true.
C28_NoTypesNoVerdict == [](C28_Inv) /\ [][C28_Step]_vars

\* a local stub with result = true was created without supported_types and
\* bound to the default profile, then updated; the scan of an image failed
C28_Witness ==
    /\ pc[1] = "done"
    /\ data[1].kind = IMAGE
    /\ outcome[1] = Raised("NotImplementedError")
    /\ Len(db_profile[1].checks) = 1
    /\ db_profile[1].checks[1].supported_types = <<>>
    /\ StartsWith(db_profile[1].checks[1].name, LocalDummyPrefix)
    /\ handle_dummy(ModelValidate(db_profile[1].checks[1]))
    /\ admin_req.n = 2
    /\ admin_req.op = "update_check"
    /\ admin_req.status = 200


----------------------------------------------------------------------------
(* Properties of startup *)

\* the rows of the default profile in a Profile table
DefaultRows(rows) == SelectSeq(rows, LAMBDA r : r.name = DefaultProfile)

\* the user of the credentials has no default profile of their own, or the
\* default profile
UsesDefault(credentials) ==
    \E k \in 1..Len(users) :
        /\ users[k].signed_token = sign(credentials)
        /\ users[k].default_profile \in {None, DefaultProfile}

\* what C29 says of one step: startup leaves a default profile that exists
\* as it is, and makes one without checks when there is none
C29_Step ==
    (\E c \in Calls : pc[c] = "down" /\ pc'[c] # "down") =>
        /\ checks' = checks
        /\ IF Len(DefaultRows(profiles)) > 0
           THEN profiles' = profiles
           ELSE /\ Len(profiles') = Len(profiles) + 1
                /\ SubSeq(profiles', 1, Len(profiles)) = profiles
                /\ profiles'[Len(profiles')].name = DefaultProfile
                /\ profiles'[Len(profiles')].check_ids = <<>>

\* what C29 says of one state: while the default profile is as startup made
\* it, the scan of an active user who uses it returns a False verdict over
\* no checks
C29_Inv ==
    \A c \in Calls :
        (/\ pc[c] = "done"
         /\ ActiveUserToken(creds[c])
         /\ UsesDefault(creds[c])
         /\ Len(DefaultRows(profiles)) = 1
         /\ DefaultRows(profiles)[1].check_ids = <<>>)
        => outcome[c] = Returned([verdict |-> FALSE, checks |-> <<>>])

----------------------------------------------------------------------------
(* Termination *)

\* every remote call that is under way is answered or fails in the end
BackendsAnswer == \A c \in Calls : WF_vars(RpcReturn(c) \/ RpcFail(c))

\* call c has entered the loop of predict on a profile whose checks are all
\* local stubs
LocalOnly(c) ==
    /\ pc[c] = "loop"
    /\ \A k \in 1..Len(db_profile[c].checks) :
          StartsWith(db_profile[c].checks[k].name, LocalDummyPrefix)

\* a call that is at a remote call has no step of its own: no timeout ends
\* the wait
WaitsForBackend ==
    \A c \in Calls : pc[c] = "rpc" => ~ENABLED (Resolve(c) \/ Dispatch(c))

\* a call that has ended has one outcome, a Verdict or an error
OneOutcome ==
    \A c \in Calls :
        /\ pc[c] = "done" => (outcome[c].returned # outcome[c].raised)
        /\ pc[c] # "done" => outcome[c] = NoOutcome

\* the outcome of a call that has ended stays
OutcomeStays ==
    \A c \in Calls :
        pc[c] = "done" => (pc'[c] = "done" /\ outcome'[c] = outcome[c])

\* C30: when every remote call is answered or fails in the end, every call
\* of predict ends, with exactly one outcome; a call on a profile of local
\* stubs only ends without that assumption; and a call that waits for a
\* backend has no step of its own, so that without the assumption it can
\* wait for ever.
C30_Termination ==
    /\ BackendsAnswer => \A c \in Calls : (pc[c] # "idle") ~> (pc[c] = "done")
    /\ \A c \in Calls : LocalOnly(c) ~> (pc[c] = "done")
    /\ []OneOutcome
    /\ [][OutcomeStays]_vars
    /\ []WaitsForBackend

\* every call that has begun ends, whatever the backends do
C30_EndsUnconditionally == \A c \in Calls : (pc[c] # "idle") ~> (pc[c] = "done")

\* a call of three checks ended with a Verdict after it waited for the
\* answer of a backend
C30_Witness ==
    \E c \in Calls :
        /\ pc[c] = "done"
        /\ outcome[c].returned
        /\ Len(replies) = 1
        /\ Len(run_log[c]) = 3
        /\ IsRemoteRun(run_log[c][2])

====
